---------------------------- MODULE Spec2Model ----------------------------
(***************************************************************************)
(* Model of bond-lab/indown-omw:                                           *)
(*   src/fix_malformed_tsv.py  fix_tsv (line repair preprocessor)          *)
(*   src/map2ili.py            load_pwn_map, lookup_synset, load_iwn_map,  *)
(*                             detect_and_mark_dupes, build_final_mapping  *)
(*                                                                         *)
(* Python strings are modelled as sequences of one-character strings, so   *)
(* that strip, split, join, int(), float() and the 08d format are computed *)
(* character by character as Python computes them.                         *)
(***************************************************************************)
EXTENDS Integers, Sequences, FiniteSets, TLC

VARIABLES
    pc,            \* position of the running script
    lines,         \* fix_tsv: f.readlines() of the input file
    fixed_lines,   \* fix_tsv: the output lines
    i,             \* fix_tsv: loop index (0-based, as in the code)
    stats,         \* fix_tsv: the statistics dict
    origin,        \* fix_tsv: per output line, the input indices it was built from
    pwn_files,     \* load_pwn_map: the four mapping files, as sequences of lines
    pwn_pos,       \* load_pwn_map: <<file index, number of lines read in it>>
    map2130,       \* the version map (dict: pwn21 key -> pwn30 key)
    iwn_file,      \* load_iwn_map: the lines of the input TSV
    ewn,           \* the wordnet database (omw id -> ILI id or NoIli)
    entries,       \* the validated records
    issues,        \* the five issue lists
    dupe_groups,   \* detect_and_mark_dupes: its second return value
    iwn_to_ili,    \* build_final_mapping: relation -> (iwn_key -> ili)
    detect_runs    \* number of completed detect_and_mark_dupes runs

vars == <<pc, lines, fixed_lines, i, stats, origin, pwn_files, pwn_pos, map2130,
          iwn_file, ewn, entries, issues, dupe_groups, iwn_to_ili, detect_runs>>

fixVars == <<lines, fixed_lines, i, stats, origin>>
pwnVars == <<pwn_files, pwn_pos>>
pipeVars == <<iwn_file, ewn, entries, issues, dupe_groups, iwn_to_ili, detect_runs>>

-----------------------------------------------------------------------------
(* Python str operations, on sequences of characters                         *)

\* Characters str.strip() and str.split() treat as whitespace
IsSpace(c) == c \in {" ", "\t", "\n", "\r"}

RECURSIVE LStrip(_)
LStrip(s) == IF s # <<>> /\ IsSpace(Head(s)) THEN LStrip(Tail(s)) ELSE s

RECURSIVE RStrip(_)
RStrip(s) ==
    IF s # <<>> /\ IsSpace(s[Len(s)]) THEN RStrip(SubSeq(s, 1, Len(s) - 1)) ELSE s

Strip(s) == LStrip(RStrip(s))

\* s.rstrip('\n')
RECURSIVE RStripNl(_)
RStripNl(s) ==
    IF s # <<>> /\ s[Len(s)] = "\n" THEN RStripNl(SubSeq(s, 1, Len(s) - 1)) ELSE s

\* s.split(sep) for a one-character separator: always at least one field
RECURSIVE SplitFrom(_, _, _)
SplitFrom(s, sep, cur) ==
    IF s = <<>> THEN <<cur>>
    ELSE IF Head(s) = sep THEN <<cur>> \o SplitFrom(Tail(s), sep, <<>>)
    ELSE SplitFrom(Tail(s), sep, Append(cur, Head(s)))

Split(s, sep) == SplitFrom(s, sep, <<>>)

\* s.split(): runs of whitespace separate, no empty field is returned
RECURSIVE SplitWsFrom(_, _)
SplitWsFrom(s, cur) ==
    IF s = <<>> THEN (IF cur = <<>> THEN <<>> ELSE <<cur>>)
    ELSE IF IsSpace(Head(s))
         THEN (IF cur = <<>> THEN <<>> ELSE <<cur>>) \o SplitWsFrom(Tail(s), <<>>)
         ELSE SplitWsFrom(Tail(s), Append(cur, Head(s)))

SplitWs(s) == SplitWsFrom(s, <<>>)

\* sep.join(cols)
RECURSIVE Join(_, _)
Join(cols, sep) ==
    IF cols = <<>> THEN <<>>
    ELSE IF Len(cols) = 1 THEN cols[1]
    ELSE cols[1] \o <<sep>> \o Join(Tail(cols), sep)

\* s.replace(a, b) for one-character a and b
Replace(s, a, b) == [k \in 1..Len(s) |-> IF s[k] = a THEN b ELSE s[k]]

\* s.startswith(c) for a one-character c
StartsWith(s, c) == s # <<>> /\ Head(s) = c

\* cols[-1]
Last(cols) == cols[Len(cols)]

\* cols[-1] = v
SetLast(cols, v) == [cols EXCEPT ![Len(cols)] = v]

-----------------------------------------------------------------------------
(* Literals and sample text                                                  *)

WordN == <<"W", "o", "r", "d", "N">>
Hypernymy == <<"H", "y", "p", "e", "r", "n", "y", "m", "y">>
Direct == <<"D", "i", "r", "e", "c", "t">>

\* A physical line of a TSV file: the fields joined by tabs, newline-terminated
TsvLine(fields) == Join(fields, "\t") \o <<"\n">>


\* Sample lines of the unrepaired TSV file
Row9(rel) ==
    TsvLine(<< <<"1">>, <<"N">>, <<"2">>, <<"N">>, <<"c">>, <<"g">>, <<"h">>,
               <<"k">>, rel >>)
Row8 ==
    TsvLine(<< <<"1">>, <<"N">>, <<"2">>, <<"N">>, <<"c">>, <<"g">>, <<"h">>,
               <<"\"", "k">> >>)
Row7 ==
    TsvLine(<< <<"1">>, <<"N">>, <<"2">>, <<"N">>, <<"c">>, <<"g">>,
               <<"\"", "h">> >>)
Cont(rel) == TsvLine(<< <<"\"", "x">>, rel >>)
Plain2 == TsvLine(<< <<"x">>, Direct >>)

FixSampleLines ==
    {Row9(Direct), Row9(WordN), Row8, Row7, Cont(Direct), Cont(WordN), Plain2}

\* Largest number of lines of the file given to fix_tsv
MaxFixLines == 3

\* All sequences over S of length 0..n
SeqsUpTo(S, n) == UNION {[1..k -> S] : k \in 0..n}

-----------------------------------------------------------------------------
(* fix_malformed_tsv.py: fix_tsv                                             *)

\* cols of the physical line at 0-based index k
Cols(line) == Split(RStripNl(line), "\t")

\* the split pattern: 7 or 8 columns, then a 2-column line opening with a quote
IsSplitPair(ls, k) ==
    /\ Len(Cols(ls[k + 1])) < 9
    /\ Len(Cols(ls[k + 1])) >= 7
    /\ k + 1 < Len(ls)
    /\ Len(Cols(ls[k + 2])) = 2
    /\ StartsWith(Cols(ls[k + 2])[1], "\"")

\* the columns of the merged line
MergedCols(cols, next_cols) ==
    LET merged_gloss == Replace(Last(cols) \o <<"\n">> \o next_cols[1], "\n", " ")
    IN  Append(SetLast(cols, merged_gloss), next_cols[2])

\* the WordN test of a line that was not merged
IsWordN(cols) == Len(cols) >= 9 /\ Strip(Last(cols)) = WordN

FixInit ==
    /\ \E ls \in SeqsUpTo(FixSampleLines, MaxFixLines), final_nl \in BOOLEAN :
          lines = IF ls # <<>> /\ ~final_nl
                  THEN SetLast(ls, RStripNl(Last(ls)))
                  ELSE ls
    /\ fixed_lines = <<>>
    /\ i = 0
    /\ stats = [total_lines |-> Len(lines), merged_lines |-> 0,
                fixed_wordn |-> 0, output_lines |-> 0]
    /\ origin = <<>>
    /\ pc = "fix_loop"
    /\ pwn_files = <<>> /\ pwn_pos = <<0, 0>> /\ map2130 = <<>>
    /\ iwn_file = <<>> /\ ewn = <<>> /\ entries = <<>> /\ issues = <<>>
    /\ dupe_groups = <<>> /\ iwn_to_ili = <<>> /\ detect_runs = 0

\* one iteration of the while loop taking the merge branch
FixMerge ==
    /\ pc = "fix_loop"
    /\ i < Len(lines)
    /\ IsSplitPair(lines, i)
    /\ LET cols == MergedCols(Cols(lines[i + 1]), Cols(lines[i + 2]))
       IN  fixed_lines' = Append(fixed_lines, Join(cols, "\t") \o <<"\n">>)
    /\ origin' = Append(origin, {i, i + 1})
    /\ stats' = [stats EXCEPT !.merged_lines = @ + 1]
    /\ i' = i + 2
    /\ UNCHANGED <<pc, lines, pwnVars, map2130, pipeVars>>

\* one iteration rewriting a WordN relation
FixWordN ==
    /\ pc = "fix_loop"
    /\ i < Len(lines)
    /\ ~IsSplitPair(lines, i)
    /\ IsWordN(Cols(lines[i + 1]))
    /\ LET cols == SetLast(Cols(lines[i + 1]), Hypernymy)
       IN  fixed_lines' = Append(fixed_lines, Join(cols, "\t") \o <<"\n">>)
    /\ origin' = Append(origin, {i})
    /\ stats' = [stats EXCEPT !.fixed_wordn = @ + 1]
    /\ i' = i + 1
    /\ UNCHANGED <<pc, lines, pwnVars, map2130, pipeVars>>

\* one iteration copying the line as it is
FixCopy ==
    /\ pc = "fix_loop"
    /\ i < Len(lines)
    /\ ~IsSplitPair(lines, i)
    /\ ~IsWordN(Cols(lines[i + 1]))
    /\ fixed_lines' = Append(fixed_lines, RStripNl(lines[i + 1]) \o <<"\n">>)
    /\ origin' = Append(origin, {i})
    /\ i' = i + 1
    /\ UNCHANGED <<pc, lines, stats, pwnVars, map2130, pipeVars>>

\* the loop ends: count the output lines and write them
FixWrite ==
    /\ pc = "fix_loop"
    /\ i >= Len(lines)
    /\ stats' = [stats EXCEPT !.output_lines = Len(fixed_lines)]
    /\ pc' = "fix_done"
    /\ UNCHANGED <<lines, fixed_lines, i, origin, pwnVars, map2130, pipeVars>>

FixNext == FixMerge \/ FixWordN \/ FixCopy \/ FixWrite

SpecFix == FixInit /\ [][FixNext]_vars

\* the output lines built from input line j (0-based)
OutputsOf(j) == {k \in 1..Len(fixed_lines) : j \in origin[k]}

\* input lines j, j+1 (0-based) match the split pattern of the specification
SplitPattern(j) ==
    /\ j + 2 <= Len(lines)
    /\ Len(Cols(lines[j + 1])) \in {7, 8}
    /\ Len(Cols(lines[j + 2])) = 2
    /\ StartsWith(Cols(lines[j + 2])[1], "\"")

\* the merged line of the pair j, j+1 as the specification describes it
MergedAsSpecified(j, out) ==
    LET first == Cols(lines[j + 1])
        cont == Cols(lines[j + 2])
        cols == Cols(out)
    IN  /\ Len(cols) = Len(first) + 1
        /\ \A c \in 1..(Len(first) - 1) : cols[c] = first[c]
        /\ cols[Len(first)] = Last(first) \o <<" ">> \o cont[1]
        /\ Last(cols) = cont[2]

\* C5: every split pair (first line of 7 or 8 columns, then a 2-column line
\* opening with a quote) yields exactly one output line, of exactly 9 columns,
\* holding the joined gloss and the continuation's relation, and neither input
\* line is emitted on its own.
C5_SplitPairGivesOneNineColumnLine ==
    pc = "fix_done" =>
        \A j \in 0..(Len(lines) - 1) :
            SplitPattern(j) =>
                /\ OutputsOf(j) = OutputsOf(j + 1)
                /\ Cardinality(OutputsOf(j)) = 1
                /\ \A k \in OutputsOf(j) :
                      /\ origin[k] = {j, j + 1}
                      /\ MergedAsSpecified(j, fixed_lines[k])
                      /\ Len(Cols(fixed_lines[k])) = 9

\* C9: no output line carries the relation WordN, merged lines included, and a
\* line whose relation is not WordN keeps its relation.
C9_NoWordNRelationInOutput ==
    pc = "fix_done" =>
        \A k \in 1..Len(fixed_lines) :
            /\ Len(Cols(fixed_lines[k])) >= 9 => Last(Cols(fixed_lines[k])) # WordN
            /\ \A j \in origin[k] :
                  (origin[k] = {j} /\ Last(Cols(lines[j + 1])) # WordN)
                      => Last(Cols(fixed_lines[k])) = Last(Cols(lines[j + 1]))

-----------------------------------------------------------------------------
(* Python numbers and comparisons                                            *)

Digits == {"0", "1", "2", "3", "4", "5", "6", "7", "8", "9"}

DigitVal(c) ==
    CASE c = "0" -> 0 [] c = "1" -> 1 [] c = "2" -> 2 [] c = "3" -> 3 [] c = "4" -> 4
      [] c = "5" -> 5 [] c = "6" -> 6 [] c = "7" -> 7 [] c = "8" -> 8 [] c = "9" -> 9

RECURSIVE DigitsValue(_)
DigitsValue(ds) ==
    IF ds = <<>> THEN 0
    ELSE 10 * DigitsValue(SubSeq(ds, 1, Len(ds) - 1)) + DigitVal(ds[Len(ds)])

RECURSIVE Pow10(_)
Pow10(k) == IF k = 0 THEN 1 ELSE 10 * Pow10(k - 1)

AllDigits(s) == \A k \in 1..Len(s) : s[k] \in Digits

\* what int(s) and float(s) give for text that is not a number
ValueError == "ValueError"

\* float(s) for plain decimal text (digits with at most one point, after
\* strip): the exact value <<n, k>> standing for n / 10^k; ValueError otherwise.
\* Signs, exponents, inf and nan are not among the texts the model reads.
FloatOf(s) ==
    LET t == Strip(s)
        parts == Split(t, ".")
        whole == parts[1]
        frac == IF Len(parts) = 2 THEN parts[2] ELSE <<>>
    IN  IF /\ Len(parts) <= 2
           /\ AllDigits(whole) /\ AllDigits(frac)
           /\ Len(whole) + Len(frac) > 0
        THEN <<DigitsValue(whole \o frac), Len(frac)>>
        ELSE ValueError

\* a < b and a = b on such values
FloatLess(a, b) == a[1] * Pow10(b[2]) < b[1] * Pow10(a[2])
FloatEq(a, b) == a[1] * Pow10(b[2]) = b[1] * Pow10(a[2])

\* the characters of the model in code point order
CodePointOrder ==
    <<"\t", "\n", "\r", " ", "\"", "+", "-", ".", "0", "1", "2", "3", "4", "5", "6",
      "7", "8", "9", "A", "B", "C", "D", "E", "H", "I", "J", "N", "O", "R", "T",
      "U", "V", "W", "_", "a", "c", "d", "e", "g", "h", "i", "k", "m", "n", "o",
      "p", "r", "s", "t", "v", "w", "x", "y">>

Ord(c) == CHOOSE k \in 1..Len(CodePointOrder) : CodePointOrder[k] = c

\* s < t on str: lexicographic by code point
RECURSIVE StrLess(_, _)
StrLess(s, t) ==
    IF t = <<>> THEN FALSE
    ELSE IF s = <<>> THEN TRUE
    ELSE IF Head(s) = Head(t) THEN StrLess(Tail(s), Tail(t))
    ELSE Ord(Head(s)) < Ord(Head(t))

\* p > q on (float, str) tuples
PairGreater(p, q) ==
    \/ FloatLess(q[1], p[1])
    \/ FloatEq(q[1], p[1]) /\ StrLess(q[2], p[2])

\* max(pairs) keeping the first pair no later pair is greater than, but
\* comparing the scores alone
RECURSIVE PyMaxScoreOnlyFrom(_, _)
PyMaxScoreOnlyFrom(pairs, best) ==
    IF pairs = <<>> THEN best
    ELSE PyMaxScoreOnlyFrom(Tail(pairs),
             IF FloatLess(best[1], Head(pairs)[1]) THEN Head(pairs) ELSE best)

PyMaxScoreOnly(pairs) == PyMaxScoreOnlyFrom(Tail(pairs), Head(pairs))

\* max(pairs): the first pair that no later pair is greater than
RECURSIVE PyMaxFrom(_, _)
PyMaxFrom(pairs, best) ==
    IF pairs = <<>> THEN best
    ELSE PyMaxFrom(Tail(pairs),
             IF PairGreater(Head(pairs), best) THEN Head(pairs) ELSE best)

PyMax(pairs) == PyMaxFrom(Tail(pairs), Head(pairs))

\* {} : the dict holding nothing
EmptyDict == [x \in {} |-> x]

\* d[k] = v on a dict
DictSet(d, k, v) == [x \in (DOMAIN d) \cup {k} |-> IF x = k THEN v ELSE d[x]]

-----------------------------------------------------------------------------
(* map2ili.py: load_pwn_map                                                  *)

\* the part of speech of each mapping file, in the order of the files dict
PwnFilePos == <<"a", "r", "n", "v">>

\* parts = line.strip().split()
PwnParts(line) == SplitWs(Strip(line))

\* range(1, len(parts), 2), as 1-based positions of the offsets
PairIndexes(parts) == {k \in 2..Len(parts) : k % 2 = 0}

\* the list comprehension raises: parts[i+1] is past the end, or is no float
PairsRaise(parts) ==
    \E k \in PairIndexes(parts) :
        IF k + 1 > Len(parts) THEN TRUE ELSE FloatOf(parts[k + 1]) = ValueError

\* pairs = [(float(parts[i+1]), parts[i]) ...]
Pairs(parts) == [n \in 1..Cardinality(PairIndexes(parts)) |->
                    <<FloatOf(parts[2 * n + 1]), parts[2 * n]>>]

\* key and val of one line
PwnKey(parts, pos) == parts[1] \o <<"-", pos>>
PwnVal(parts, pos) == PyMax(Pairs(parts))[2] \o <<"-", pos>>

\* tokens and lines of the mapping files
O1740 == <<"0", "0", "0", "0", "1", "7", "4", "0">>
O1741 == <<"0", "0", "0", "0", "1", "7", "4", "1">>
O1742 == <<"0", "0", "0", "0", "1", "7", "4", "2">>
O5678 == <<"1", "2", "3", "4", "5", "6", "7", "8">>
PwnLine(parts) == Join(parts, " ") \o <<"\n">>

PwnSampleLines ==
    { PwnLine(<<O1740, O1741, <<"0", ".", "9">> >>),
      PwnLine(<<O5678, O1740, <<"0", ".", "9">>, O1741, <<"0", ".", "9", "5">> >>),
      PwnLine(<<O5678, O1742, <<"1">>, O1740, <<"0", ".", "9">> >>),
      PwnLine(<<O1741, O1740, <<"0", ".", "5">>, O1742, <<"0", ".", "5", "0">> >>),
      PwnLine(<<O1741, O1742, <<"0", ".", "5", "0">>, O1740, <<"0", ".", "5">> >>),
      PwnLine(<<O1740, O1741>>),
      PwnLine(<< >>),
      PwnLine(<<O1740, O1741, <<"0", ".", "9">>, O1742>>),
      PwnLine(<<O1740, O1741, <<"x">> >>) }

\* Largest number of lines in the four mapping files together
MaxMapLines == 2

\* the lines placed in file f, in order
RECURSIVE LinesOfFile(_, _)
LinesOfFile(placed, f) ==
    IF placed = <<>> THEN <<>>
    ELSE (IF Head(placed)[2] = f THEN <<Head(placed)[1]>> ELSE <<>>)
             \o LinesOfFile(Tail(placed), f)

PwnInit ==
    /\ \E placed \in SeqsUpTo(PwnSampleLines \X (1..Len(PwnFilePos)), MaxMapLines) :
          /\ \A k \in 1..(Len(placed) - 1) : placed[k][2] <= placed[k + 1][2]
          /\ pwn_files = [f \in 1..Len(PwnFilePos) |-> LinesOfFile(placed, f)]
    /\ pwn_pos = <<1, 0>>
    /\ map2130 = EmptyDict
    /\ pc = "pwn_loop"
    /\ lines = <<>> /\ fixed_lines = <<>> /\ i = 0 /\ stats = <<>> /\ origin = <<>>
    /\ iwn_file = <<>> /\ ewn = <<>> /\ entries = <<>> /\ issues = <<>>
    /\ dupe_groups = <<>> /\ iwn_to_ili = <<>> /\ detect_runs = 0

\* the next line of the file being read, if any
PwnHasLine == pc = "pwn_loop" /\ pwn_pos[2] < Len(pwn_files[pwn_pos[1]])
PwnCurLine == pwn_files[pwn_pos[1]][pwn_pos[2] + 1]

\* a line of fewer than 3 parts is skipped
PwnSkipLine ==
    /\ PwnHasLine
    /\ Len(PwnParts(PwnCurLine)) < 3
    /\ pwn_pos' = <<pwn_pos[1], pwn_pos[2] + 1>>
    /\ UNCHANGED <<pc, map2130, pwn_files, fixVars, pipeVars>>

\* a line whose pair list cannot be built raises out of load_pwn_map
PwnRaise ==
    /\ PwnHasLine
    /\ Len(PwnParts(PwnCurLine)) >= 3
    /\ PairsRaise(PwnParts(PwnCurLine))
    /\ pc' = "pwn_raised"
    /\ UNCHANGED <<pwn_pos, map2130, pwn_files, fixVars, pipeVars>>

\* a line with its pairs: the best pair is recorded
PwnRecordLine ==
    /\ PwnHasLine
    /\ Len(PwnParts(PwnCurLine)) >= 3
    /\ ~PairsRaise(PwnParts(PwnCurLine))
    /\ LET parts == PwnParts(PwnCurLine)
           pos == PwnFilePos[pwn_pos[1]]
       IN  map2130' = DictSet(map2130, PwnKey(parts, pos), PwnVal(parts, pos))
    /\ pwn_pos' = <<pwn_pos[1], pwn_pos[2] + 1>>
    /\ UNCHANGED <<pc, pwn_files, fixVars, pipeVars>>

\* end of a file: the next one is opened
PwnNextFile ==
    /\ pc = "pwn_loop"
    /\ pwn_pos[2] >= Len(pwn_files[pwn_pos[1]])
    /\ pwn_pos[1] < Len(PwnFilePos)
    /\ pwn_pos' = <<pwn_pos[1] + 1, 0>>
    /\ UNCHANGED <<pc, map2130, pwn_files, fixVars, pipeVars>>

\* end of the last file: the map is returned
PwnDone ==
    /\ pc = "pwn_loop"
    /\ pwn_pos[2] >= Len(pwn_files[pwn_pos[1]])
    /\ pwn_pos[1] = Len(PwnFilePos)
    /\ pc' = "pwn_done"
    /\ UNCHANGED <<pwn_pos, map2130, pwn_files, fixVars, pipeVars>>

PwnNext == PwnSkipLine \/ PwnRaise \/ PwnRecordLine \/ PwnNextFile \/ PwnDone

SpecPwnMap == PwnInit /\ [][PwnNext]_vars

\* the line load_pwn_map handled last, and its parts
PwnLastParts == PwnParts(pwn_files[pwn_pos[1]][pwn_pos[2]])

\* a mapping line as the format describes it: an offset, then (offset, score) pairs
IsMappingLine(parts) ==
    /\ Len(parts) >= 3
    /\ Len(parts) % 2 = 1
    /\ \A k \in PairIndexes(parts) : FloatOf(parts[k + 1]) # ValueError

\* its candidates, as <<score, offset>>
Candidates(parts) == {<<FloatOf(parts[k + 1]), parts[k]>> : k \in PairIndexes(parts)}

\* the candidates no other candidate beats: none has a higher score, and none
\* of the same score has a larger offset string
BestCandidates(parts) ==
    {p \in Candidates(parts) :
        \A q \in Candidates(parts) :
            /\ ~FloatLess(p[1], q[1])
            /\ FloatEq(p[1], q[1]) => ~StrLess(p[2], q[2])}

\* C4: after a mapping line is read, the map holds for '<old offset>-<pos>' the
\* newer offset of the pair of maximum score, the largest offset string among
\* pairs sharing that score; candidates (0.9, 00001740), (0.95, 00001741)
\* give 00001741.
C4_BestPairRecorded ==
    (pwn_pos[2] > 0 /\ IsMappingLine(PwnLastParts)) =>
        LET parts == PwnLastParts
            pos == PwnFilePos[pwn_pos[1]]
            key == parts[1] \o <<"-", pos>>
        IN  /\ key \in DOMAIN map2130
            /\ \E p \in BestCandidates(parts) : map2130[key] = p[2] \o <<"-", pos>>
            /\ \A p \in BestCandidates(parts) : map2130[key] = p[2] \o <<"-", pos>>
            /\ parts = <<O5678, O1740, <<"0", ".", "9">>, O1741, <<"0", ".", "9", "5">> >>
                  => map2130[key] = O1741 \o <<"-", pos>>

\* C4 witness: a line with two pairs of equal score and different offsets, the
\* larger offset second, has been recorded
C4_TieRecorded ==
    /\ pwn_pos[2] > 0
    /\ IsMappingLine(PwnLastParts)
    /\ Len(PwnLastParts) = 5
    /\ FloatEq(FloatOf(PwnLastParts[3]), FloatOf(PwnLastParts[5]))
    /\ StrLess(PwnLastParts[2], PwnLastParts[4])
    /\ PwnLastParts[1] \o <<"-", PwnFilePos[pwn_pos[1]]>> \in DOMAIN map2130

-----------------------------------------------------------------------------
(* Python int() and the 08d format                                           *)

\* Python None, and a key a dict does not hold (dict.get gives None for it)
None == "None"
Unset == "unset"

\* the truth value of an entry's ili: None, a missing key and '' are false
Truthy(v) == v \notin {None, Unset, ""}

\* the digits and single inner underscores of an int literal, after the sign
IntBody(s) ==
    LET t == Strip(s)
    IN  IF t # <<>> /\ Head(t) \in {"+", "-"} THEN Tail(t) ELSE t

\* int(s) succeeds: optional whitespace around, optional sign, digits with
\* single underscores between them
IsIntText(s) ==
    LET b == IntBody(s)
    IN  /\ b # <<>>
        /\ \A k \in 1..Len(b) : b[k] \in Digits \cup {"_"}
        /\ b[1] \in Digits
        /\ b[Len(b)] \in Digits
        /\ \A k \in 1..(Len(b) - 1) : ~(b[k] = "_" /\ b[k + 1] = "_")

IsDigitChar(c) == c \in Digits

\* int(s), where it succeeds
IntOf(s) ==
    LET v == DigitsValue(SelectSeq(IntBody(s), IsDigitChar))
    IN  IF Head(Strip(s)) = "-" THEN 0 - v ELSE v

DigitChar(d) == CHOOSE c \in Digits : DigitVal(c) = d

RECURSIVE NatDigits(_)
NatDigits(n) ==
    IF n < 10 THEN <<DigitChar(n)>>
    ELSE NatDigits(n \div 10) \o <<DigitChar(n % 10)>>

RECURSIVE ZeroPad(_, _)
ZeroPad(ds, w) == IF Len(ds) >= w THEN ds ELSE ZeroPad(<<"0">> \o ds, w)

\* f"{n}": no padding
FormatUnpadded(n) == IF n < 0 THEN <<"-">> \o NatDigits(0 - n) ELSE NatDigits(n)

\* f"{n:08d}": the sign counts in the width
Format08d(n) ==
    IF n < 0 THEN <<"-">> \o ZeroPad(NatDigits(0 - n), 7)
    ELSE ZeroPad(NatDigits(n), 8)

-----------------------------------------------------------------------------
(* map2ili.py: PosTag, load_iwn_map                                          *)

NOUN == <<"N", "O", "U", "N">>
VERB == <<"V", "E", "R", "B">>
ADVERB == <<"A", "D", "V", "E", "R", "B">>
ADJECTIVE == <<"A", "D", "J", "E", "C", "T", "I", "V", "E">>

PosTag == (NOUN :> <<"n">>) @@ (VERB :> <<"v">>) @@ (ADVERB :> <<"r">>)
              @@ (ADJECTIVE :> <<"a">>)

\* the first field of the header row
IwnIdHeader == <<"i", "w", "n", "_", "i", "d">>

\* row = line.strip().split('\t')
IwnRow(line) == Split(Strip(line), "\t")

\* an entry of issues['malformed_lines']
MalformedIssue(lineno, msg, line) ==
    [line_number |-> lineno, error |-> msg, original_line |-> RStripNl(line)]

\* rel with the two labels exchanged
RelOfSwapped(rel_type) == IF rel_type = Direct THEN "hyper" ELSE "equal"

\* rel of a recognised relation label
RelOf(rel_type) == IF rel_type = Direct THEN "equal" ELSE "hyper"

\* the entry dict of a row that passed the checks
EntryOf(row) ==
    [iwn_id |-> row[1], iwn_pos |-> row[2], pwn21_offset |-> row[3],
     pwn21_pos |-> row[4], english_lemmas |-> row[5], english_gloss |-> row[6],
     hindi_lemmas |-> row[7], hindi_gloss |-> row[8],
     original_rel |-> Strip(Last(row)), rel |-> RelOf(Strip(Last(row))),
     iwn_key |-> row[1] \o <<"_">> \o PosTag[row[2]],
     pwn21_key |-> Format08d(IntOf(row[3])) \o <<"-">> \o PosTag[row[4]],
     ili |-> Unset, pwn30_key |-> Unset]

\* one iteration of the loop over the file: the header, an issue or an entry
ParseRow(line, lineno) ==
    LET row == IwnRow(line)
        rel_type == Strip(Last(row))
    IN  IF row[1] = IwnIdHeader THEN [kind |-> "header"]
        ELSE IF Len(row) < 9
        THEN [kind |-> "malformed",
              issue |-> MalformedIssue(lineno, <<"only", Len(row), "columns">>, line)]
        ELSE IF rel_type # Direct /\ rel_type # Hypernymy
        THEN [kind |-> "malformed",
              issue |-> MalformedIssue(lineno, <<"unknown rel", rel_type>>, line)]
        ELSE IF row[2] \notin DOMAIN PosTag
        THEN [kind |-> "malformed",
              issue |-> MalformedIssue(lineno, <<"unknown IWN POS", row[2]>>, line)]
        ELSE IF row[4] \notin DOMAIN PosTag
        THEN [kind |-> "malformed",
              issue |-> MalformedIssue(lineno, <<"unknown PWN POS", row[4]>>, line)]
        ELSE IF ~IsIntText(row[3])
        THEN [kind |-> "malformed",
              issue |-> MalformedIssue(lineno, <<"invalid PWN offset", row[3]>>, line)]
        ELSE [kind |-> "entry", entry |-> EntryOf(row)]

\* the loop over the file from line lineno on: the entries and the issues
RECURSIVE LoadRows(_, _, _)
LoadRows(file, lineno, acc) ==
    IF lineno > Len(file) THEN acc
    ELSE LET r == ParseRow(file[lineno], lineno)
         IN  LoadRows(file, lineno + 1,
                 IF r.kind = "entry"
                 THEN [acc EXCEPT !.entries = Append(@, r.entry)]
                 ELSE IF r.kind = "malformed"
                 THEN [acc EXCEPT !.malformed_lines = Append(@, r.issue)]
                 ELSE acc)

-----------------------------------------------------------------------------
(* map2ili.py: lookup_synset                                                 *)

\* pwn30_key.rsplit('-', 1), for a key that holds a '-' (the values of map2130
\* are built as f"{best_offset_30}-{pos}")
LastDash(s) ==
    CHOOSE k \in 1..Len(s) : s[k] = "-" /\ \A j \in (k + 1)..Len(s) : s[j] # "-"
RSplitDash(s) == <<SubSeq(s, 1, LastDash(s) - 1), SubSeq(s, LastDash(s) + 1, Len(s))>>

\* f"omw-en-{key}"
OmwId(key) == <<"o", "m", "w", "-", "e", "n", "-">> \o key

\* ewn.synset(id=omw_id) of an id the database holds: the synset, with its ili
\* (None when it has none); wn.Error is raised for the other ids
SynsetOf(db, omw_id) == [id |-> omw_id, ili |-> db[omw_id]]

\* lookup_synset with no satellite retry
LookupSynsetNoRetry(db, pwn30_key) ==
    IF OmwId(pwn30_key) \in DOMAIN db
    THEN [found |-> TRUE, synset |-> SynsetOf(db, OmwId(pwn30_key)),
          actual_key |-> pwn30_key, queries |-> <<OmwId(pwn30_key)>>]
    ELSE [found |-> FALSE, synset |-> None, actual_key |-> None,
          queries |-> <<OmwId(pwn30_key)>>]

\* lookup_synset reporting the requested key after the satellite retry
LookupSynsetRequestedKey(db, pwn30_key) ==
    LET sat_key == RSplitDash(pwn30_key)[1] \o <<"-", "s">>
    IN  IF OmwId(pwn30_key) \in DOMAIN db
        THEN [found |-> TRUE, synset |-> SynsetOf(db, OmwId(pwn30_key)),
              actual_key |-> pwn30_key, queries |-> <<OmwId(pwn30_key)>>]
        ELSE IF RSplitDash(pwn30_key)[2] = <<"a">> /\ OmwId(sat_key) \in DOMAIN db
        THEN [found |-> TRUE, synset |-> SynsetOf(db, OmwId(sat_key)),
              actual_key |-> pwn30_key,
              queries |-> <<OmwId(pwn30_key), OmwId(sat_key)>>]
        ELSE LookupSynsetNoRetry(db, pwn30_key)

\* lookup_synset: the synset and the key it was found under, or (None, None);
\* queries lists the ids asked of the database, in order
LookupSynset(db, pwn30_key) ==
    LET offset == RSplitDash(pwn30_key)[1]
        pos == RSplitDash(pwn30_key)[2]
        sat_key == offset \o <<"-", "s">>
    IN  IF OmwId(pwn30_key) \in DOMAIN db
        THEN [found |-> TRUE, synset |-> SynsetOf(db, OmwId(pwn30_key)),
              actual_key |-> pwn30_key, queries |-> <<OmwId(pwn30_key)>>]
        ELSE IF pos = <<"a">>
        THEN IF OmwId(sat_key) \in DOMAIN db
             THEN [found |-> TRUE, synset |-> SynsetOf(db, OmwId(sat_key)),
                   actual_key |-> sat_key,
                   queries |-> <<OmwId(pwn30_key), OmwId(sat_key)>>]
             ELSE [found |-> FALSE, synset |-> None, actual_key |-> None,
                   queries |-> <<OmwId(pwn30_key), OmwId(sat_key)>>]
        ELSE [found |-> FALSE, synset |-> None, actual_key |-> None,
              queries |-> <<OmwId(pwn30_key)>>]

-----------------------------------------------------------------------------
(* map2ili.py: the issue entries                                             *)

\* s.endswith('-a')
EndsWithDashA(s) == Len(s) >= 2 /\ s[Len(s) - 1] = "-" /\ s[Len(s)] = "a"

\* s.replace('-a', '-s')
RECURSIVE ReplaceDashA(_)
ReplaceDashA(s) ==
    IF Len(s) < 2 THEN s
    ELSE IF s[1] = "-" /\ s[2] = "a"
    THEN <<"-", "s">> \o ReplaceDashA(SubSeq(s, 3, Len(s)))
    ELSE <<Head(s)>> \o ReplaceDashA(Tail(s))

\* the context every missing_* issue carries
IssueContext(e) ==
    [iwn_id |-> e.iwn_id, pwn21_key |-> e.pwn21_key,
     english_lemmas |-> e.english_lemmas, english_gloss |-> e.english_gloss,
     hindi_lemmas |-> e.hindi_lemmas, hindi_gloss |-> e.hindi_gloss]

MissingPwn30Issue(e) == IssueContext(e)

MissingIliIssue(e, actual_key) ==
    [pwn30_key |-> actual_key, omw_id |-> OmwId(actual_key)] @@ IssueContext(e)

MissingOmwIssue(e, pwn30_key) ==
    [pwn30_key |-> pwn30_key,
     omw_id_tried |-> IF EndsWithDashA(pwn30_key)
                      THEN <<OmwId(pwn30_key), OmwId(ReplaceDashA(pwn30_key))>>
                      ELSE <<OmwId(pwn30_key)>>] @@ IssueContext(e)

\* the same issue as build_final_mapping writes it
HyperIssue(issue) == [rel |-> "hyper"] @@ issue

\* issues[name].append(x)
IssueAppend(iss, name, x) == [iss EXCEPT ![name] = Append(@, x)]

NoIssues ==
    [malformed_lines |-> <<>>, duplicate_ili |-> <<>>, missing_pwn30 |-> <<>>,
     missing_omw |-> <<>>, missing_ili |-> <<>>]

-----------------------------------------------------------------------------
(* map2ili.py: detect_and_mark_dupes                                         *)

\* first pass, one 'equal' entry: the entry with ili and pwn30_key set, and
\* the issue list written to (or "none")
ResolveEqual(e, m, db) ==
    IF e.pwn21_key \notin DOMAIN m
    THEN [entry |-> [e EXCEPT !.ili = None, !.pwn30_key = None],
          list |-> "missing_pwn30", issue |-> MissingPwn30Issue(e)]
    ELSE LET pwn30_key == m[e.pwn21_key]
             r == LookupSynset(db, pwn30_key)
             e1 == [e EXCEPT !.pwn30_key =
                        IF r.found THEN r.actual_key ELSE pwn30_key]
         IN  IF r.found
             THEN IF r.synset.ili # None
                  THEN [entry |-> [e1 EXCEPT !.ili = r.synset.ili],
                        list |-> "none", issue |-> None]
                  ELSE [entry |-> [e1 EXCEPT !.ili = None],
                        list |-> "missing_ili",
                        issue |-> MissingIliIssue(e, r.actual_key)]
             ELSE [entry |-> [e1 EXCEPT !.ili = None],
                   list |-> "missing_omw", issue |-> MissingOmwIssue(e, pwn30_key)]

\* first pass: every 'equal' entry from position k on is resolved
RECURSIVE FirstPass(_, _, _, _)
FirstPass(k, acc, m, db) ==
    IF k > Len(acc.entries) THEN acc
    ELSE IF acc.entries[k].rel # "equal" THEN FirstPass(k + 1, acc, m, db)
    ELSE LET r == ResolveEqual(acc.entries[k], m, db)
         IN  FirstPass(k + 1,
                 [entries |-> [acc.entries EXCEPT ![k] = r.entry],
                  issues |-> IF r.list = "none" THEN acc.issues
                             ELSE IssueAppend(acc.issues, r.list, r.issue)],
                 m, db)

\* the grouping without the test of rel
GroupedAnyRel(es) == {k \in 1..Len(es) : Truthy(es[k].ili)}

\* second pass: the entries (by position) that take part in the grouping
Grouped(es) == {k \in 1..Len(es) : es[k].rel = "equal" /\ Truthy(es[k].ili)}

\* the groups of ili_to_entries in dict order: by first entry, members ascending
RECURSIVE IndexSeq(_, _)
IndexSeq(S, n) ==
    IF n = 0 THEN <<>>
    ELSE IndexSeq(S, n - 1) \o (IF n \in S THEN <<n>> ELSE <<>>)

GroupOf(es, k) == IndexSeq({j \in Grouped(es) : es[j].ili = es[k].ili}, Len(es))

\* the grouping keyed by the entry instead of its ILI: every group is of one
IliGroupsByEntry(es) ==
    LET order == IndexSeq(Grouped(es), Len(es))
    IN  [n \in 1..Len(order) |-> <<order[n]>>]

IliGroups(es) ==
    LET firsts == {k \in Grouped(es) :
                      \A j \in Grouped(es) : es[j].ili = es[k].ili => k <= j}
        order == IndexSeq(firsts, Len(es))
    IN  [n \in 1..Len(order) |-> GroupOf(es, order[n])]

\* sorted(group, key=lambda e: int(e['iwn_id'])) raises on an iwn_id int() rejects
SortRaises(es, group) == \E n \in 1..Len(group) : ~IsIntText(es[group[n]].iwn_id)

\* sorted() is stable: x goes after every element whose key is not larger
RECURSIVE InsertByIwnId(_, _, _)
InsertByIwnId(es, sorted, x) ==
    IF sorted = <<>> THEN <<x>>
    ELSE IF IntOf(es[x].iwn_id) < IntOf(es[Head(sorted)].iwn_id)
    THEN <<x>> \o sorted
    ELSE <<Head(sorted)>> \o InsertByIwnId(es, Tail(sorted), x)

\* sorted() keeping the order of the group
UnsortedByIwnId(es, group) == group

RECURSIVE SortedByIwnId(_, _)
SortedByIwnId(es, group) ==
    IF group = <<>> THEN <<>>
    ELSE InsertByIwnId(es, SortedByIwnId(es, SubSeq(group, 1, Len(group) - 1)),
                       group[Len(group)])

\* the entry of issues['duplicate_ili'] for a sorted group
DuplicateIssue(es, sorted) ==
    [ili |-> es[sorted[1]].ili,
     pwn30_key |-> es[sorted[1]].pwn30_key,
     english_lemmas |-> es[sorted[1]].english_lemmas,
     english_gloss |-> es[sorted[1]].english_gloss,
     iwn_entries |-> [n \in 1..Len(sorted) |->
                         [iwn_id |-> es[sorted[n]].iwn_id,
                          hindi_lemmas |-> es[sorted[n]].hindi_lemmas,
                          hindi_gloss |-> es[sorted[n]].hindi_gloss]]]

\* marking only the entries after the first of a group
MarkExtras(es, group) ==
    [k \in 1..Len(es) |->
        IF \E n \in 2..Len(group) : group[n] = k
        THEN [es[k] EXCEPT !.rel = "dupe"] ELSE es[k]]

\* for entry in ili_entries: entry['rel'] = 'dupe'
MarkDupes(es, group) ==
    [k \in 1..Len(es) |->
        IF \E n \in 1..Len(group) : group[n] = k
        THEN [es[k] EXCEPT !.rel = "dupe"] ELSE es[k]]

\* third pass over the groups from position g on; it stops where sorted() raises
RECURSIVE ThirdPass(_, _, _)
ThirdPass(groups, g, acc) ==
    IF g > Len(groups) THEN acc
    ELSE IF Len(groups[g]) <= 1 THEN ThirdPass(groups, g + 1, acc)
    ELSE IF SortRaises(acc.entries, groups[g]) THEN [acc EXCEPT !.raised = TRUE]
    ELSE LET sorted == SortedByIwnId(acc.entries, groups[g])
         IN  ThirdPass(groups, g + 1,
                 [entries |-> MarkDupes(acc.entries, groups[g]),
                  issues |-> IssueAppend(acc.issues, "duplicate_ili",
                                         DuplicateIssue(acc.entries, sorted)),
                  dupe_groups |-> Append(acc.dupe_groups,
                                         [ili |-> acc.entries[sorted[1]].ili,
                                          entries |-> sorted]),
                  raised |-> FALSE])

\* detect_and_mark_dupes(entries, map2130, ewn, issues): the three passes
DetectResult(es, m, db, iss) ==
    LET first == FirstPass(1, [entries |-> es, issues |-> iss], m, db)
    IN  ThirdPass(IliGroups(first.entries), 1,
                  [entries |-> first.entries, issues |-> first.issues,
                   dupe_groups |-> <<>>, raised |-> FALSE])

-----------------------------------------------------------------------------
(* map2ili.py: build_final_mapping                                           *)

\* iwn_to_ili[rel][iwn_key] = ili on the defaultdict(dict)
MappingSet(mp, rel, iwn_key, ili) ==
    DictSet(mp, rel,
            DictSet(IF rel \in DOMAIN mp THEN mp[rel] ELSE EmptyDict, iwn_key, ili))

\* one iteration that reports an unresolved entry whatever its relation
BuildEntryReportAll(acc, e, m, db) ==
    IF Truthy(e.ili)
    THEN [acc EXCEPT !.mapping = MappingSet(@, e.rel, e.iwn_key, e.ili)]
    ELSE IF e.pwn21_key \notin DOMAIN m
    THEN [acc EXCEPT !.issues =
              IssueAppend(@, "missing_pwn30", HyperIssue(MissingPwn30Issue(e)))]
    ELSE LET r == LookupSynset(db, m[e.pwn21_key])
         IN  IF r.found
             THEN IF r.synset.ili # None
                  THEN [acc EXCEPT !.mapping =
                            MappingSet(@, e.rel, e.iwn_key, r.synset.ili)]
                  ELSE [acc EXCEPT !.issues = IssueAppend(@, "missing_ili",
                            HyperIssue(MissingIliIssue(e, r.actual_key)))]
             ELSE [acc EXCEPT !.issues = IssueAppend(@, "missing_omw",
                       HyperIssue(MissingOmwIssue(e, m[e.pwn21_key])))]

\* one iteration of the loop over the entries
BuildEntry(acc, e, m, db) ==
    IF Truthy(e.ili)
    THEN [acc EXCEPT !.mapping = MappingSet(@, e.rel, e.iwn_key, e.ili)]
    ELSE IF e.pwn21_key \notin DOMAIN m
    THEN IF e.rel = "hyper"
         THEN [acc EXCEPT !.issues =
                   IssueAppend(@, "missing_pwn30", HyperIssue(MissingPwn30Issue(e)))]
         ELSE acc
    ELSE LET pwn30_key == m[e.pwn21_key]
             r == LookupSynset(db, pwn30_key)
         IN  IF r.found
             THEN IF r.synset.ili # None
                  THEN [acc EXCEPT !.mapping =
                            MappingSet(@, e.rel, e.iwn_key, r.synset.ili)]
                  ELSE IF e.rel = "hyper"
                  THEN [acc EXCEPT !.issues = IssueAppend(@, "missing_ili",
                            HyperIssue(MissingIliIssue(e, r.actual_key)))]
                  ELSE acc
             ELSE IF e.rel = "hyper"
             THEN [acc EXCEPT !.issues = IssueAppend(@, "missing_omw",
                       HyperIssue(MissingOmwIssue(e, pwn30_key)))]
             ELSE acc

\* build_final_mapping(entries, map2130, ewn, issues) from entry k on
RECURSIVE BuildFrom(_, _, _, _, _)
BuildFrom(es, k, acc, m, db) ==
    IF k > Len(es) THEN acc
    ELSE BuildFrom(es, k + 1, BuildEntry(acc, es[k], m, db), m, db)

-----------------------------------------------------------------------------
(* map2ili.py: the script, on sample inputs                                  *)

\* a row of the linked TSV file; the lemma and gloss columns are c, g, h, k
LinkRow(id, ipos, off, ppos, rel) ==
    TsvLine(<<id, ipos, off, ppos, <<"c">>, <<"g">>, <<"h">>, <<"k">>, rel>>)

Id7 == <<"7">>
Id12 == <<"1", "2">>
IdIWN1 == <<"I", "W", "N", "1">>
Off1740 == <<"1", "7", "4", "0">>
Off1760 == <<"1", "7", "6", "0">>
Off1770 == <<"1", "7", "7", "0">>
Off1780 == <<"1", "7", "8", "0">>

\* rows the parser accepts: the noun 1740 resolves to i900, 1760 to a synset
\* without ILI, 1770 to no synset, 1780 has no translation; the adjective 1740
\* is a satellite in the database
PipelineRows ==
    {LinkRow(id, NOUN, Off1740, NOUN, Direct) : id \in {Id7, Id12, IdIWN1}}
    \cup {LinkRow(Id7, NOUN, Off1740, NOUN, Hypernymy),
          LinkRow(Id12, NOUN, Off1760, NOUN, Direct),
          LinkRow(Id12, NOUN, Off1780, NOUN, Direct),
          LinkRow(Id12, ADJECTIVE, Off1770, ADJECTIVE, Direct),
          LinkRow(Id7, ADJECTIVE, Off1740, ADJECTIVE, Direct),
          LinkRow(Id12, ADJECTIVE, Off1740, ADJECTIVE, Hypernymy)}
    \cup {LinkRow(Id7, NOUN, off, NOUN, Hypernymy) : off \in {Off1760, Off1770, Off1780}}

\* rows that exercise the parser: header, short, long, odd fields, whitespace,
\* and the row of the end-to-end example of the specification (target POS n)
ParserRows ==
    {TsvLine(<<IwnIdHeader, <<"p">>, <<"o">>, <<"p">>, <<"c">>, <<"g">>, <<"h">>,
               <<"k">>, <<"r">> >>),
     <<"\n">>,
     TsvLine(<<Id7, NOUN, Off1740, NOUN, <<"c">>, <<"g">>, <<"h">>, <<"k">> >>),
     TsvLine(<<Id7, NOUN, Off1740, NOUN, <<"c">>, <<"g">>, <<"h">>, <<"k">>,
               <<"x">>, Direct>>),
     TsvLine(<< <<>>, NOUN, Off1740, NOUN, <<"c">>, <<"g">>, <<"h">>, <<"k">>,
               Direct>>),
     LinkRow(Id7, NOUN, Off1740, NOUN, WordN),
     LinkRow(Id7, <<"n">>, Off1740, NOUN, Direct),
     LinkRow(IdIWN1, NOUN, Off1740, <<"n">>, Direct),
     LinkRow(Id7, NOUN, <<"x">>, NOUN, Direct),
     LinkRow(Id7, NOUN, <<"-", "5">>, NOUN, Direct),
     LinkRow(Id7, NOUN, Off1740, NOUN, <<" ">> \o Direct),
     LinkRow(<<" ">> \o Id12, NOUN, Off1740, NOUN, Hypernymy),
     LinkRow(Id12, VERB, Off1740, ADVERB, Hypernymy)}

\* pwn21 / pwn30 keys and the sample version map
Key(off8, pos) == off8 \o <<"-", pos>>
O1760 == <<"0", "0", "0", "0", "1", "7", "6", "0">>
O1761 == <<"0", "0", "0", "0", "1", "7", "6", "1">>
O1770 == <<"0", "0", "0", "0", "1", "7", "7", "0">>
O1771 == <<"0", "0", "0", "0", "1", "7", "7", "1">>

SampleMap ==
    (Key(O1740, "n") :> Key(O1741, "n")) @@ (Key(O1760, "n") :> Key(O1761, "n"))
        @@ (Key(O1770, "n") :> Key(O1771, "n")) @@ (Key(O1740, "a") :> Key(O1741, "a"))
        @@ (Key(O1770, "a") :> Key(O1771, "a"))

\* sample databases: 00001741-n with ILI i900, 00001761-n without ILI, the
\* adjective 00001741 filed as satellite only, or as both a and s
SampleDb ==
    (OmwId(Key(O1741, "n")) :> "i900") @@ (OmwId(Key(O1761, "n")) :> None)
        @@ (OmwId(Key(O1741, "s")) :> "i901")

SampleDbs == {SampleDb, (OmwId(Key(O1741, "a")) :> "i902") @@ SampleDb}

\* Largest number of lines of the linked TSV file
MaxRows == 3

\* Largest number of runs of detect_and_mark_dupes over the same entries
MaxDetectRuns == 2

Init ==
    /\ iwn_file \in SeqsUpTo(PipelineRows, MaxRows) \cup SeqsUpTo(ParserRows, MaxRows)
    /\ map2130 = SampleMap
    /\ ewn \in IF \A n \in 1..Len(iwn_file) : iwn_file[n] \in PipelineRows
               THEN SampleDbs ELSE {SampleDb}
    /\ entries = <<>>
    /\ issues = NoIssues
    /\ dupe_groups = <<>>
    /\ iwn_to_ili = EmptyDict
    /\ detect_runs = 0
    /\ pc = "start"
    /\ lines = <<>> /\ fixed_lines = <<>> /\ i = 0 /\ stats = <<>> /\ origin = <<>>
    /\ pwn_files = <<>> /\ pwn_pos = <<0, 0>>

\* entries = load_iwn_map(issues)
LoadIwnMap ==
    /\ pc = "start"
    /\ LET r == LoadRows(iwn_file, 1, [entries |-> <<>>, malformed_lines |-> <<>>])
       IN  /\ entries' = r.entries
           /\ issues' = [issues EXCEPT !.malformed_lines = @ \o r.malformed_lines]
    /\ pc' = "loaded"
    /\ UNCHANGED <<iwn_file, ewn, map2130, dupe_groups, iwn_to_ili, detect_runs,
                   fixVars, pwnVars>>

\* detect_and_mark_dupes can run: after the load, or again over its own output
CanDetect == pc \in {"loaded", "detected"} /\ detect_runs < MaxDetectRuns

\* entries, dupe_groups = detect_and_mark_dupes(entries, map2130, ewn, issues)
DetectAndMarkDupes ==
    /\ CanDetect
    /\ ~DetectResult(entries, map2130, ewn, issues).raised
    /\ LET r == DetectResult(entries, map2130, ewn, issues)
       IN  /\ entries' = r.entries
           /\ issues' = r.issues
           /\ dupe_groups' = r.dupe_groups
    /\ detect_runs' = detect_runs + 1
    /\ pc' = "detected"
    /\ UNCHANGED <<iwn_file, ewn, map2130, iwn_to_ili, fixVars, pwnVars>>

\* detect_and_mark_dupes raises ValueError out of sorted(): the script ends
DetectRaises ==
    /\ CanDetect
    /\ DetectResult(entries, map2130, ewn, issues).raised
    /\ LET r == DetectResult(entries, map2130, ewn, issues)
       IN  /\ entries' = r.entries
           /\ issues' = r.issues
    /\ pc' = "raised"
    /\ UNCHANGED <<iwn_file, ewn, map2130, dupe_groups, iwn_to_ili, detect_runs,
                   fixVars, pwnVars>>

\* iwn_to_ili = build_final_mapping(entries, map2130, ewn, issues)
BuildFinalMapping ==
    /\ pc = "detected"
    /\ LET r == BuildFrom(entries, 1, [mapping |-> EmptyDict, issues |-> issues],
                          map2130, ewn)
       IN  /\ iwn_to_ili' = r.mapping
           /\ issues' = r.issues
    /\ pc' = "built"
    /\ UNCHANGED <<iwn_file, ewn, map2130, entries, dupe_groups, detect_runs,
                   fixVars, pwnVars>>

Next == LoadIwnMap \/ DetectAndMarkDupes \/ DetectRaises \/ BuildFinalMapping

Spec == Init /\ [][Next]_vars

-----------------------------------------------------------------------------
(* Claims about the script                                                   *)

\* the positions of the records
Records == 1..Len(entries)

\* the record entered detect_and_mark_dupes with relation 'equal'
EnteredEqual(k) == entries[k].original_rel = Direct

\* the record takes part in a duplicate group: it entered as 'equal', resolved
\* to a non-empty ILI, and another 'equal' record resolved to the same ILI
InDupeGroup(k) ==
    /\ EnteredEqual(k)
    /\ Truthy(entries[k].ili)
    /\ \E j \in Records \ {k} : EnteredEqual(j) /\ entries[j].ili = entries[k].ili

\* the members of the duplicate group of ILI x
MembersOf(x) == {k \in Records : InDupeGroup(k) /\ entries[k].ili = x}

DupeIlis == {entries[k].ili : k \in {j \in Records : InDupeGroup(j)}}

\* what an iwn_entries item says of record k
IwnEntryOf(k) ==
    [iwn_id |-> entries[k].iwn_id, hindi_lemmas |-> entries[k].hindi_lemmas,
     hindi_gloss |-> entries[k].hindi_gloss]

\* the issue lists every member of the group of x once, in ascending order
\* of int(iwn_id)
ListsGroup(issue, x) ==
    /\ Len(issue.iwn_entries) = Cardinality(MembersOf(x))
    /\ \E f \in [1..Len(issue.iwn_entries) -> MembersOf(x)] :
          /\ \A a, b \in DOMAIN f : a # b => f[a] # f[b]
          /\ \A a \in DOMAIN f : issue.iwn_entries[a] = IwnEntryOf(f[a])
    /\ \A a \in 1..(Len(issue.iwn_entries) - 1) :
          IntOf(issue.iwn_entries[a].iwn_id) <= IntOf(issue.iwn_entries[a + 1].iwn_id)

\* C1: when detect_and_mark_dupes returns, a record has relation 'dupe' iff it
\* entered as 'equal', resolved to a non-empty ILI and another 'equal' record
\* resolved to the same ILI (every member, not only the extras); and for each
\* such ILI exactly one duplicate_ili issue exists, listing every member in
\* ascending order of int(iwn_id).
C1_DupesMarkedAndListed ==
    (pc = "detected" /\ detect_runs = 1) =>
        /\ \A k \in Records : entries[k].rel = "dupe" <=> InDupeGroup(k)
        /\ \A x \in DupeIlis :
              /\ Cardinality({n \in 1..Len(issues.duplicate_ili) :
                                 issues.duplicate_ili[n].ili = x}) = 1
              /\ \A n \in 1..Len(issues.duplicate_ili) :
                    issues.duplicate_ili[n].ili = x
                        => ListsGroup(issues.duplicate_ili[n], x)
        /\ Len(issues.duplicate_ili) = Cardinality(DupeIlis)

\* C1 witness: a duplicate group whose members came in descending order of
\* int(iwn_id), beside a record that is no duplicate
C1_GroupOutOfOrderMarked ==
    /\ pc = "detected" /\ detect_runs = 1
    /\ \E j, k \in Records :
          /\ j < k /\ InDupeGroup(j) /\ InDupeGroup(k)
          /\ entries[j].ili = entries[k].ili
          /\ IntOf(entries[k].iwn_id) < IntOf(entries[j].iwn_id)
    /\ \E k \in Records : EnteredEqual(k) /\ ~InDupeGroup(k) /\ Truthy(entries[k].ili)

\* the version map and the database of the end-to-end example
ExampleMapAndDb ==
    /\ Key(O1740, "n") \in DOMAIN map2130
    /\ map2130[Key(O1740, "n")] = Key(O1741, "n")
    /\ OmwId(Key(O1741, "n")) \in DOMAIN ewn
    /\ ewn[OmwId(Key(O1741, "n"))] = "i900"

\* the final mapping and the issues the example expects
ExampleResult ==
    /\ iwn_to_ili = ("equal" :> ((IdIWN1 \o <<"_", "n">>) :> "i900"))
    /\ issues.malformed_lines = <<>>

\* C2 as stated: the single row IWN1, NOUN, 1740, n, ..., Direct ends as
\* equal: {IWN1_n: i900} in the final mapping and is no malformed line.
C2_ExampleWithTargetPosLetter ==
    (/\ pc = "built" /\ detect_runs = 1
     /\ ExampleMapAndDb
     /\ iwn_file = <<LinkRow(IdIWN1, NOUN, Off1740, <<"n">>, Direct)>>)
        => ExampleResult

\* C2 amended: the same row with target POS column NOUN ends as
\* equal: {IWN1_n: i900} in the final mapping and is no malformed line.
C2_ExampleWithTargetPosTag ==
    (/\ pc = "built" /\ detect_runs = 1
     /\ ExampleMapAndDb
     /\ iwn_file = <<LinkRow(IdIWN1, NOUN, Off1740, NOUN, Direct)>>)
        => ExampleResult

\* C2 witness: the pipeline has run over the amended example row
C2_ExampleBuilt ==
    /\ pc = "built" /\ detect_runs = 1
    /\ ExampleMapAndDb
    /\ iwn_file = <<LinkRow(IdIWN1, NOUN, Off1740, NOUN, Direct)>>
    /\ Len(entries) = 1

\* the keys lookup_synset is called with: the values of the version map
LookupKeys == {map2130[k] : k \in DOMAIN map2130}

\* '<offset>-<pos>' taken apart, pos being one letter
KeyOffset(key) == SubSeq(key, 1, Len(key) - 2)
KeyPos(key) == key[Len(key)]
SatKey(key) == KeyOffset(key) \o <<"-", "s">>

\* what the claim says lookup_synset returns for key
LookupAsClaimed(key) ==
    LET r == LookupSynset(ewn, key)
    IN  IF OmwId(key) \in DOMAIN ewn
        THEN /\ r.found /\ r.synset.id = OmwId(key) /\ r.actual_key = key
             /\ r.queries = <<OmwId(key)>>
        ELSE IF KeyPos(key) = "a"
        THEN /\ r.queries = <<OmwId(key), OmwId(SatKey(key))>>
             /\ IF OmwId(SatKey(key)) \in DOMAIN ewn
                THEN /\ r.found /\ r.synset.id = OmwId(SatKey(key))
                     /\ r.actual_key = SatKey(key)
                ELSE ~r.found /\ r.synset = None /\ r.actual_key = None
        ELSE /\ ~r.found /\ r.synset = None /\ r.actual_key = None
             /\ r.queries = <<OmwId(key)>>

\* the pwn30_key the detector stores for a record whose key is translated
StoredKeyAsClaimed(k) ==
    LET key == map2130[entries[k].pwn21_key]
    IN  entries[k].pwn30_key =
            IF OmwId(key) \in DOMAIN ewn THEN key
            ELSE IF KeyPos(key) = "a" /\ OmwId(SatKey(key)) \in DOMAIN ewn
            THEN SatKey(key)
            ELSE key

\* C3: lookup_synset returns the synset of omw-en-<key> with the requested
\* key; failing that, for pos a only, it asks once more for omw-en-<offset>-s
\* and returns that synset with key <offset>-s, which the detector stores as
\* the record's pwn30_key; otherwise it returns (None, None).
C3_LookupWithSatelliteFallback ==
    /\ \A key \in LookupKeys : LookupAsClaimed(key)
    /\ pc = "detected"
          => \A k \in Records :
                 (EnteredEqual(k) /\ entries[k].pwn21_key \in DOMAIN map2130)
                     => StoredKeyAsClaimed(k)

\* C3 witness: a record resolved through the satellite fallback holds the -s key
C3_SatelliteKeyStored ==
    /\ pc = "detected"
    /\ \E k \in Records :
          /\ EnteredEqual(k)
          /\ entries[k].pwn21_key \in DOMAIN map2130
          /\ KeyPos(map2130[entries[k].pwn21_key]) = "a"
          /\ entries[k].pwn30_key = SatKey(map2130[entries[k].pwn21_key])
          /\ entries[k].ili = "i901"

\* C7: whatever the rows, the version map and the database, none of
\* load_iwn_map, detect_and_mark_dupes and build_final_mapping raises.
C7_NoRowAbortsTheBatch == pc # "raised"

\* the columns of a physical line of the file
RawCols(line) == Split(RStripNl(line), "\t")

\* the POS letter of a recognised tag
TagLetter(tag) ==
    CASE tag = NOUN -> "n" [] tag = VERB -> "v" [] tag = ADVERB -> "r"
      [] tag = ADJECTIVE -> "a"

\* line n is a row the claim speaks of: not the header, at least 9 columns,
\* relation Direct or Hypernymy, recognised POS tags, an offset of digits
AcceptableRow(n) ==
    LET cols == RawCols(iwn_file[n])
    IN  /\ cols[1] # IwnIdHeader
        /\ Len(cols) >= 9
        /\ Last(cols) \in {Direct, Hypernymy}
        /\ cols[2] \in {NOUN, VERB, ADVERB, ADJECTIVE}
        /\ cols[4] \in {NOUN, VERB, ADVERB, ADJECTIVE}
        /\ cols[3] # <<>> /\ AllDigits(cols[3])

\* line n has exactly 9 columns and its first column is not empty and does
\* not open with whitespace
NineCleanColumns(n) ==
    LET cols == RawCols(iwn_file[n])
    IN  Len(cols) = 9 /\ cols[1] # <<>> /\ ~IsSpace(cols[1][1])

\* the lines before n that left an issue, and those that are the header
IssuesBefore(n) ==
    Cardinality({m \in 1..Len(issues.malformed_lines) :
                    issues.malformed_lines[m].line_number < n})
HeadersBefore(n) == Cardinality({m \in 1..(n - 1) : IwnRow(iwn_file[m])[1] = IwnIdHeader})

\* the offset part of a pwn21_key is the offset zero-padded to 8 digits
PaddedOffset(o, text) ==
    /\ AllDigits(o)
    /\ DigitsValue(o) = DigitsValue(text)
    /\ Len(o) >= 8
    /\ Len(o) > 8 => o[1] # "0"

\* line n gave exactly one Record and no issue, and the Record holds every
\* column of the line, with the derived fields as specified
OneLosslessRecord(n) ==
    LET cols == RawCols(iwn_file[n])
        p == n - IssuesBefore(n) - HeadersBefore(n)
    IN  /\ \A m \in 1..Len(issues.malformed_lines) :
               issues.malformed_lines[m].line_number # n
        /\ p \in 1..Len(entries)
        /\ Len(entries) + Len(issues.malformed_lines) + HeadersBefore(Len(iwn_file) + 1)
               = Len(iwn_file)
        /\ Len(cols) = 9
        /\ entries[p].iwn_id = cols[1]
        /\ entries[p].iwn_pos = cols[2]
        /\ entries[p].pwn21_offset = cols[3]
        /\ entries[p].pwn21_pos = cols[4]
        /\ entries[p].english_lemmas = cols[5]
        /\ entries[p].english_gloss = cols[6]
        /\ entries[p].hindi_lemmas = cols[7]
        /\ entries[p].hindi_gloss = cols[8]
        /\ entries[p].original_rel = Last(cols)
        /\ entries[p].rel = (IF Last(cols) = Direct THEN "equal" ELSE "hyper")
        /\ entries[p].iwn_key = cols[1] \o <<"_", TagLetter(cols[2])>>
        /\ LET key == entries[p].pwn21_key
           IN  /\ Len(key) >= 2
               /\ key[Len(key) - 1] = "-"
               /\ key[Len(key)] = TagLetter(cols[4])
               /\ PaddedOffset(SubSeq(key, 1, Len(key) - 2), cols[3])

\* C6 as stated: every non-header row of at least 9 columns with a recognised
\* relation, recognised POS tags and a numeric offset gives exactly one Record
\* and no malformed_lines issue, and every column of the row is in the Record.
C6_AcceptedRowLosesNothing ==
    pc = "loaded" => \A n \in 1..Len(iwn_file) : AcceptableRow(n) => OneLosslessRecord(n)

\* C6 restricted to rows of exactly 9 columns whose first column is not empty
\* and does not open with whitespace: such a row loses nothing.
C6_NineColumnRowLosesNothing ==
    pc = "loaded" =>
        \A n \in 1..Len(iwn_file) :
            (AcceptableRow(n) /\ NineCleanColumns(n)) => OneLosslessRecord(n)

\* C6 witness: such a row was loaded after a line that was skipped
C6_RowLoadedAfterSkippedLine ==
    /\ pc = "loaded"
    /\ \E n \in 2..Len(iwn_file) :
          /\ AcceptableRow(n) /\ NineCleanColumns(n)
          /\ IssuesBefore(n) + HeadersBefore(n) > 0
    /\ Len(entries) > 0

\* C8: a second run of detect_and_mark_dupes over the records the first run
\* returned returns too, finds no duplicate group, appends nothing to
\* duplicate_ili and changes no relation.
C8_SecondRunFindsNothing ==
    [][(pc = "detected" /\ pc' # "built") =>
          /\ pc' = "detected"
          /\ dupe_groups' = <<>>
          /\ issues'.duplicate_ili = issues.duplicate_ili
          /\ Len(entries') = Len(entries)
          /\ \A k \in Records : entries'[k].rel = entries[k].rel]_vars

\* C8 witness: the detector has run twice over records with a duplicate group
\* and a resolved record outside it
C8_RanTwiceOverDupes ==
    /\ pc = "detected" /\ detect_runs = 2
    /\ \E k \in Records : entries[k].rel = "dupe"
    /\ \E k \in Records : entries[k].rel = "equal" /\ Truthy(entries[k].ili)
    /\ Len(issues.duplicate_ili) = 1

\* the composite keys of the records are pairwise distinct
DistinctCompositeKeys ==
    \A j, k \in Records : j # k => entries[j].iwn_key # entries[k].iwn_key

\* the database key of record k whose key is translated: the translated key,
\* or for pos a the satellite key when only that one is in the database
HasDbEntry(k) ==
    LET key == map2130[entries[k].pwn21_key]
    IN  \/ OmwId(key) \in DOMAIN ewn
        \/ KeyPos(key) = "a" /\ OmwId(SatKey(key)) \in DOMAIN ewn
DbIdOf(k) ==
    LET key == map2130[entries[k].pwn21_key]
    IN  IF OmwId(key) \in DOMAIN ewn THEN OmwId(key) ELSE OmwId(SatKey(key))

\* which of the four outcomes the version map and the database give record k
Outcome(k) ==
    IF entries[k].pwn21_key \notin DOMAIN map2130 THEN "missing_pwn30"
    ELSE IF ~HasDbEntry(k) THEN "missing_omw"
    ELSE IF ewn[DbIdOf(k)] = None THEN "missing_ili"
    ELSE "mapped"

\* the final mapping holds the composite key of record k under relation rel
InSection(rel, k) ==
    /\ rel \in DOMAIN iwn_to_ili
    /\ entries[k].iwn_key \in DOMAIN iwn_to_ili[rel]

\* the items of an issue list that are about record k, written by the
\* builder (they carry rel) or by the detector (they do not)
ItemsAbout(list, k, byBuilder) ==
    {m \in 1..Len(issues[list]) :
        /\ issues[list][m].iwn_id = entries[k].iwn_id
        /\ issues[list][m].pwn21_key = entries[k].pwn21_key
        /\ ("rel" \in DOMAIN issues[list][m]) = byBuilder}

\* the records an item about record k may be about: same identifier and same
\* version key, hyper ones or the others
Alike(k, hyper) ==
    {j \in Records :
        /\ entries[j].iwn_id = entries[k].iwn_id
        /\ entries[j].pwn21_key = entries[k].pwn21_key
        /\ (entries[j].rel = "hyper") = hyper}

MissingLists == {"missing_pwn30", "missing_omw", "missing_ili"}

\* record k is in the final mapping, under its relation only, with its ILI,
\* and in no missing_* list
MappedOnly(k) ==
    /\ InSection(entries[k].rel, k)
    /\ iwn_to_ili[entries[k].rel][entries[k].iwn_key] = ewn[DbIdOf(k)]
    /\ \A rel \in DOMAIN iwn_to_ili \ {entries[k].rel} : ~InSection(rel, k)
    /\ \A list \in MissingLists, b \in BOOLEAN : ItemsAbout(list, k, b) = {}

\* record k is absent from the final mapping and recorded once in the list of
\* its outcome, by the builder if it is hyper and by the detector if not
ReportedOnce(k) ==
    /\ \A rel \in DOMAIN iwn_to_ili : ~InSection(rel, k)
    /\ \A b \in BOOLEAN :
           Cardinality(ItemsAbout(Outcome(k), k, b)) = Cardinality(Alike(k, b))
    /\ \A list \in MissingLists \ {Outcome(k)}, b \in BOOLEAN :
           ItemsAbout(list, k, b) = {}

\* C10: after detect_and_mark_dupes then build_final_mapping over records with
\* pairwise distinct composite keys, every record is either in the final
\* mapping under its final relation with its resolved ILI and in no missing_*
\* list, or absent from the mapping and recorded exactly once in exactly one
\* of missing_pwn30, missing_omw, missing_ili; failed 'equal' records are
\* reported by the detector only and 'hyper' records by the builder only.
C10_EveryRecordInOneOutcome ==
    (pc = "built" /\ detect_runs = 1 /\ DistinctCompositeKeys) =>
        \A k \in Records :
            IF Outcome(k) = "mapped" THEN MappedOnly(k) ELSE ReportedOnce(k)

\* C10 witness: a run that mapped a record, reported a failed 'equal' record
\* in the detector and a failed 'hyper' record in the builder
C10_MappedAndBothReporters ==
    /\ pc = "built" /\ detect_runs = 1 /\ DistinctCompositeKeys
    /\ \E k \in Records : Outcome(k) = "mapped" /\ InSection(entries[k].rel, k)
    /\ \E k \in Records :
          /\ entries[k].rel = "equal" /\ Outcome(k) # "mapped"
          /\ ItemsAbout(Outcome(k), k, FALSE) # {}
    /\ \E k \in Records :
          /\ entries[k].rel = "hyper" /\ Outcome(k) # "mapped"
          /\ ItemsAbout(Outcome(k), k, TRUE) # {}

\* the Direct records that the version map and the database resolve to ILI x
DirectReaching(x) ==
    {k \in Records : EnteredEqual(k) /\ Outcome(k) = "mapped" /\ ewn[DbIdOf(k)] = x}

\* the ILIs that are values of a section of the final mapping
SectionIlis(rel) ==
    IF rel \in DOMAIN iwn_to_ili
    THEN {iwn_to_ili[rel][key] : key \in DOMAIN iwn_to_ili[rel]}
    ELSE {}

\* C11: in the final mapping built after detect_and_mark_dupes, no ILI that
\* two or more Direct records resolved to is the value of an 'equal' entry, so
\* no ILI under 'equal' is also under 'dupe'; and every ILI under 'dupe' was
\* reached by at least two Direct records.
C11_EqualNeverManyToOne ==
    pc = "built" =>
        /\ \A x \in SectionIlis("equal") : Cardinality(DirectReaching(x)) < 2
        /\ SectionIlis("equal") \cap SectionIlis("dupe") = {}
        /\ \A x \in SectionIlis("dupe") : Cardinality(DirectReaching(x)) >= 2

\* C11 witness: a final mapping with an ILI under 'dupe' reached by two
\* Direct records, and another ILI under 'equal' reached by one
C11_EqualBesideDupe ==
    /\ pc = "built"
    /\ \E x \in SectionIlis("dupe") : Cardinality(DirectReaching(x)) = 2
    /\ \E x \in SectionIlis("equal") : Cardinality(DirectReaching(x)) = 1

=============================================================================
